---- MODULE Spec2Model ----
(***************************************************************************)
(* Model of teleop_record_replay_sdk.py: the leader/follower control loop  *)
(* (robot_loop, a daemon thread) and the four console callbacks            *)
(* (start_record, stop_record, replay, quit_all) that Tk's mainloop runs   *)
(* one at a time on the main thread.  The two threads share the module     *)
(* globals running, mode, recording, buffer without any lock, so every     *)
(* read or write of a global is a separate step of its thread.             *)
(***************************************************************************)
EXTENDS Integers, Sequences, FiniteSets, TLC

(* ---------------- bounds of the model ---------------- *)
\* leader samples the control loop may take
MaxTicks == 2
\* console commands the operator may issue
MaxCmds == 3
\* bus transactions that may fail (returned error code or raised exception)
MaxFaults == 1
\* files somebody outside the program may delete from the records directory
MaxRemovals == 1

(* ---------------- configuration ---------------- *)
NUM_JOINTS == 6
JOINT_IDS == <<1, 2, 3, 4, 5, 6>>

\* Python's None for save_path / last_saved (a path is a non-empty name)
None == <<>>

(* ---------------- file names: strings as sequences of characters -------- *)
Digits == <<"0", "1", "2", "3", "4", "5", "6", "7", "8", "9">>
DigitSet == {Digits[i] : i \in 1..10}
DigitChar(d) == Digits[d + 1]
DigitVal(c) == (CHOOSE i \in 1..10 : Digits[i] = c) - 1

\* ord(c) for the characters that occur in the modelled names (ASCII)
Ord(c) ==
    CASE c = "." -> 46
      [] c \in DigitSet -> 48 + DigitVal(c)
      [] c = "_" -> 95
      [] c = "a" -> 97
      [] c = "n" -> 110
      [] c = "p" -> 112
      [] c = "r" -> 114
      [] c = "w" -> 119
      [] c = "x" -> 120
      [] c = "y" -> 121

Min(a, b) == IF a < b THEN a ELSE b

\* str.startswith / str.endswith
StartsWith(s, p) == Len(s) >= Len(p) /\ SubSeq(s, 1, Len(p)) = p
EndsWith(s, p) == Len(s) >= Len(p) /\ SubSeq(s, Len(s) - Len(p) + 1, Len(s)) = p

\* s[a:b] of Python (0-based, end exclusive, clipped to the string)
Slice(s, a, b) == SubSeq(s, a + 1, Min(b, Len(s)))

\* str < str of Python: lexicographic by code point, a proper prefix is smaller
LexLess(a, b) ==
    \E k \in 1..(Len(b)) :
        /\ \A j \in 1..(k - 1) : j <= Len(a) /\ a[j] = b[j]
        /\ \/ k = Len(a) + 1
           \/ k <= Len(a) /\ Ord(a[k]) < Ord(b[k])

\* sorted(S)[-1]
SortedLast(S) == CHOOSE x \in S : \A y \in S : y = x \/ LexLess(y, x)

\* decimal digits of n >= 0
RECURSIVE DecStr(_)
DecStr(n) == IF n < 10 THEN <<DigitChar(n)>>
             ELSE DecStr(n \div 10) \o <<DigitChar(n % 10)>>

\* f"{idx:03d}": zero-padded to a width of at least three
RECURSIVE Pad3(_)
Pad3(s) == IF Len(s) >= 3 THEN s ELSE Pad3(<<"0">> \o s)
Format03d(idx) == Pad3(DecStr(idx))

\* int(s) on the modelled alphabet: digits, with single underscores allowed
\* between digits; anything else is a ValueError, reported as -1
IntValid(s) ==
    /\ Len(s) > 0
    /\ \A i \in 1..Len(s) : s[i] \in DigitSet \/ s[i] = "_"
    /\ s[1] # "_" /\ s[Len(s)] # "_"
    /\ \A i \in 1..(Len(s) - 1) : ~(s[i] = "_" /\ s[i + 1] = "_")
RECURSIVE DigitsValue(_)
DigitsValue(s) ==
    IF Len(s) = 0 THEN 0
    ELSE IF s[Len(s)] = "_" THEN DigitsValue(SubSeq(s, 1, Len(s) - 1))
    ELSE 10 * DigitsValue(SubSeq(s, 1, Len(s) - 1)) + DigitVal(s[Len(s)])
IntParse(s) == IF IntValid(s) THEN DigitsValue(s) ELSE -1

RawPrefix == <<"r", "a", "w", "_">>
NpySuffix == <<".", "n", "p", "y">>
RawName(idx) == RawPrefix \o Format03d(idx) \o NpySuffix

(* ---------------- frames and stored arrays ---------------- *)
\* one JointFrame: NUM_JOINTS positions; the leader at its k-th sample stands at k
Frame(k) == [i \in 1..NUM_JOINTS |-> k]

\* a stored file: an .npy array of ndim 1 or 2, or something np.load rejects.
\* rows holds what iterating the array yields; ndim = 1 marks them as scalars
\* (kept as one-element tuples so that all rows have one type)
Npy2(rows) == [kind |-> "npy", ndim |-> 2, rows |-> rows]
Npy1(vals) == [kind |-> "npy", ndim |-> 1, rows |-> [i \in 1..Len(vals) |-> <<vals[i]>>]]
NotNpy == [kind |-> "other", ndim |-> 0, rows |-> <<>>]

NoFiles == [n \in {} |-> NotNpy]
OneFile(n, c) == [m \in {n} |-> c]
PutFile(fs, n, c) == [m \in (DOMAIN fs) \cup {n} |-> IF m = n THEN c ELSE fs[m]]
DelFile(fs, n) == [m \in (DOMAIN fs) \ {n} |-> fs[m]]

StrayName == RawPrefix \o <<"x">>

\* the records directory the program may find at start (it persists across runs)
InitDirs ==
    { NoFiles,
      OneFile(RawName(0), Npy2(<<Frame(90), Frame(91)>>)),
      OneFile(RawName(0), Npy2(<<>>)),
      PutFile(OneFile(RawName(0), Npy2(<<Frame(90)>>)), StrayName, NotNpy),
      OneFile(RawName(0), Npy1(<<90, 91>>)),
      OneFile(RawName(999), Npy2(<<Frame(90)>>)) }

(* ---------------- next_path (lines 32-38) ---------------- *)
NextPathFiles(fs) == {f \in DOMAIN fs : StartsWith(f, RawPrefix) /\ EndsWith(f, NpySuffix)}
\* the index next_path computes; -1 when int() raises ValueError
NextPathIdx(fs) ==
    IF NextPathFiles(fs) = {} THEN 0
    ELSE LET v == IntParse(Slice(SortedLast(NextPathFiles(fs)), 4, 7))
         IN IF v < 0 THEN -1 ELSE v + 1
next_path(fs) == RawName(NextPathIdx(fs))

(* ---------------- write_follower (lines 70-74) ---------------- *)
\* the goal positions sent, one per (joint id, value) pair of zip(JOINT_IDS, q)
write_follower(q) == [i \in 1..Min(Len(JOINT_IDS), Len(q)) |-> <<JOINT_IDS[i], q[i]>>]

(* ---------------- log (lines 110-112) ---------------- *)
\* one line of log_box: its text, and the file name or frame count formatted into it
LogLine(text, name, n) == [text |-> text, file |-> name, n |-> n]

(* ---------------- state ---------------- *)
VARIABLES
    running, mode, recording, buffer, save_path, last_saved,  \* globals, lines 79-85
    status,               \* status_var
    log,                  \* the lines the running callback has added to log_box
    files,                \* the records directory: name -> stored content
    portsOpen,            \* leader_port / follower_port are open
    lpc, q_leader, bufRef,   \* robot_loop: position, local q_leader, the list it loaded
    gpc, cmd, seq, ri,    \* main thread: position, running callback, replay's seq and index
    ticks, ncmds, nfaults, nremoved,   \* how much of each model bound is used
    captured,             \* history: frames of the ticks that saw recording = True
    rwrites, rsleeps,     \* history: the running replay's writes and tick waits
    mirrored,             \* history: what write_follower sent in the tick under way
    startTick,            \* history: samples taken when the recording's start_record was called
    pre                   \* history: the console-visible state had the callback done nothing

globals == <<running, mode, recording, buffer, save_path, last_saved>>
console == <<status, log>>
loopv == <<lpc, q_leader, bufRef>>
guiv == <<gpc, cmd, seq, ri>>
counters == <<ticks, ncmds, nfaults, nremoved>>
hist == <<captured, rwrites, rsleeps, mirrored, startTick, pre>>
vars == <<globals, console, files, portsOpen, loopv, guiv, counters, hist>>

Snapshot == [mode |-> mode, recording |-> recording, buffer |-> buffer,
             save_path |-> save_path, last_saved |-> last_saved, files |-> files,
             log |-> log, status |-> status]

\* between callbacks there is nothing to compare with
NoSnapshot == [mode |-> "TELEOP", recording |-> FALSE, buffer |-> <<>>,
               save_path |-> None, last_saved |-> None, files |-> NoFiles,
               log |-> <<>>, status |-> "IDLE"]

Init ==
    /\ running = TRUE /\ mode = "TELEOP" /\ recording = FALSE
    /\ buffer = <<>> /\ save_path = None /\ last_saved = None
    /\ status = "IDLE" /\ log = <<>>
    /\ files \in InitDirs
    /\ portsOpen = TRUE
    /\ lpc = "while" /\ q_leader = <<>> /\ bufRef = "none"
    /\ gpc = "idle" /\ cmd = "none" /\ seq = NotNpy /\ ri = 0
    /\ ticks = 0 /\ ncmds = 0 /\ nfaults = 0 /\ nremoved = 0
    /\ captured = <<>> /\ rwrites = <<>> /\ rsleeps = 0
    /\ mirrored = <<>> /\ startTick = 0
    /\ pre = NoSnapshot

\* the process lives until quit_all destroys the root window (the loop is a daemon thread)
Alive == gpc # "closed"

\* outcome of a read2ByteTxRx round: "ok"; "fault", a failed transaction whose
\* result code read_leader drops, taking the position 0 returned with it; "raise",
\* an exception out of the serial layer.  A closed port never succeeds.
ReadOutcomes == IF ~portsOpen THEN {"fault", "raise"}
                ELSE IF nfaults < MaxFaults THEN {"ok", "fault", "raise"}
                ELSE {"ok"}
\* outcome of a write2ByteTxRx round: write_follower drops the result code, so a
\* failed transaction that returns is "done" like a successful one
WriteOutcomes == IF ~portsOpen THEN {"done", "raise"}
                 ELSE IF nfaults < MaxFaults THEN {"done", "raise"}
                 ELSE {"done"}
Spend(o) == nfaults' = IF o \in {"fault", "raise"} /\ portsOpen THEN nfaults + 1 ELSE nfaults

(* ---------------- robot_loop (lines 90-105) ---------------- *)
\* line 93: while running
LoopWhile ==
    /\ Alive /\ lpc = "while"
    /\ lpc' = IF running THEN "ifmode" ELSE "exit"
    /\ UNCHANGED <<globals, console, files, portsOpen, q_leader, bufRef, guiv, counters, hist>>

\* line 95: if mode == "REPLAY"
LoopIfMode ==
    /\ Alive /\ lpc = "ifmode"
    /\ lpc' = IF mode = "REPLAY" THEN "sleep" ELSE "read"
    /\ UNCHANGED <<globals, console, files, portsOpen, q_leader, bufRef, guiv, counters, hist>>

\* a tick that goes from the read straight to the recording test
LoopReadNoMirror ==
    /\ Alive /\ lpc = "read" /\ ticks < MaxTicks
    /\ \E o \in ReadOutcomes :
        /\ Spend(o)
        /\ ticks' = ticks + 1
        /\ \/ o = "ok" /\ q_leader' = Frame(ticks + 1) /\ lpc' = "ifrec"
           \/ o = "fault" /\ q_leader' = Frame(0) /\ lpc' = "ifrec"
           \/ o = "raise" /\ q_leader' = q_leader /\ lpc' = "crashed"
    /\ UNCHANGED <<globals, console, files, portsOpen, bufRef, guiv, ncmds, nremoved, hist>>

\* line 99: q_leader = read_leader()
LoopRead ==
    /\ Alive /\ lpc = "read" /\ ticks < MaxTicks
    /\ \E o \in ReadOutcomes :
        /\ Spend(o)
        /\ ticks' = ticks + 1
        /\ \/ o = "ok" /\ q_leader' = Frame(ticks + 1) /\ lpc' = "write"
           \/ o = "fault" /\ q_leader' = Frame(0) /\ lpc' = "write"
           \/ o = "raise" /\ q_leader' = q_leader /\ lpc' = "crashed"
    /\ UNCHANGED <<globals, console, files, portsOpen, bufRef, guiv, ncmds, nremoved, hist>>

\* line 100: write_follower(q_leader)
LoopWrite ==
    /\ Alive /\ lpc = "write"
    /\ \E o \in WriteOutcomes :
        /\ Spend(o)
        /\ lpc' = IF o = "raise" THEN "crashed" ELSE "ifrec"
        /\ mirrored' = IF o = "raise" THEN <<>> ELSE write_follower(q_leader)
    /\ UNCHANGED <<globals, console, files, portsOpen, q_leader, bufRef, guiv,
                   ticks, ncmds, nremoved, captured, rwrites, rsleeps, startTick, pre>>

\* line 102: if recording
LoopIfRec ==
    /\ Alive /\ lpc = "ifrec"
    /\ lpc' = IF recording THEN "loadbuf" ELSE "sleep"
    /\ captured' = IF recording THEN Append(captured, q_leader) ELSE captured
    /\ mirrored' = IF recording THEN mirrored ELSE <<>>
    /\ UNCHANGED <<globals, console, files, portsOpen, q_leader, bufRef, guiv, counters,
                   rwrites, rsleeps, startTick, pre>>

\* line 103, first half: the global buffer is looked up (the list object it names now)
LoopLoadBuf ==
    /\ Alive /\ lpc = "loadbuf"
    /\ bufRef' = "cur" /\ lpc' = "append"
    /\ UNCHANGED <<globals, console, files, portsOpen, q_leader, guiv, counters, hist>>

\* line 103, second half: .append(q_leader.copy()) on the list that was looked up;
\* a list the global no longer names is garbage once the frame is appended to it
LoopAppend ==
    /\ Alive /\ lpc = "append"
    /\ buffer' = IF bufRef = "cur" THEN Append(buffer, q_leader) ELSE buffer
    /\ pre' = IF bufRef = "cur" THEN [pre EXCEPT !.buffer = Append(@, q_leader)] ELSE pre
    /\ bufRef' = "none" /\ lpc' = "sleep"
    /\ mirrored' = <<>>
    /\ UNCHANGED <<running, mode, recording, save_path, last_saved, console, files,
                   portsOpen, q_leader, guiv, counters, captured, rwrites, rsleeps, startTick>>

\* lines 96-97 and 105: time.sleep(DT), then the loop test again
LoopSleep ==
    /\ Alive /\ lpc = "sleep"
    /\ lpc' = "while"
    /\ UNCHANGED <<globals, console, files, portsOpen, q_leader, bufRef, guiv, counters, hist>>

robot_loop ==
    \/ LoopWhile \/ LoopIfMode \/ LoopRead \/ LoopWrite
    \/ LoopIfRec \/ LoopLoadBuf \/ LoopAppend \/ LoopSleep

\* buffer = []: the global names a new list; a list the loop already looked up is the old one
Rebind(ref) == IF ref = "cur" THEN "old" ELSE ref

(* ---------------- the console: Tk's mainloop (line 312) ---------------- *)
\* a button press runs its callback to the end before the next event is handled
Press(c, entry) ==
    /\ gpc = "idle" /\ ncmds < MaxCmds
    /\ ncmds' = ncmds + 1
    /\ cmd' = c /\ gpc' = entry
    /\ pre' = Snapshot
    /\ startTick' = IF c = "start_record" /\ ~recording THEN ticks ELSE startTick
    /\ UNCHANGED <<globals, console, files, portsOpen, loopv, seq, ri,
                   ticks, nfaults, nremoved, captured, rwrites, rsleeps, mirrored>>

PressStartRecord == Press("start_record", "sr_if")
PressStopRecord == Press("stop_record", "sp_if")
PressReplay == Press("replay", "rp_if")
PressQuit == Press("quit_all", "q_run")

\* the callback returns to mainloop: its locals are gone, and so is what the
\* history variables kept about it
Return ==
    /\ gpc = "ret"
    /\ gpc' = "idle" /\ cmd' = "none"
    /\ seq' = NotNpy /\ ri' = 0
    /\ log' = <<>>
    /\ pre' = NoSnapshot /\ rwrites' = <<>> /\ rsleeps' = 0
    /\ captured' = IF recording THEN captured ELSE <<>>
    /\ startTick' = IF recording THEN startTick ELSE 0
    /\ UNCHANGED <<globals, status, files, portsOpen, loopv, counters, mirrored>>

\* an exception leaves the callback; Tk reports it and mainloop goes on
TkReport ==
    /\ gpc = "raised"
    /\ gpc' = "idle" /\ cmd' = "none"
    /\ seq' = NotNpy /\ ri' = 0
    /\ log' = <<>>
    /\ pre' = NoSnapshot /\ rwrites' = <<>> /\ rsleeps' = 0
    /\ captured' = IF recording THEN captured ELSE <<>>
    /\ startTick' = IF recording THEN startTick ELSE 0
    /\ UNCHANGED <<globals, status, files, portsOpen, loopv, counters, mirrored>>

\* one step of the main thread that changes only its position
Goto(from, to) ==
    /\ gpc = from /\ gpc' = to
    /\ UNCHANGED <<cmd, seq, ri, files, portsOpen, loopv, counters, hist>>

(* ---------------- start_record (lines 114-126) ---------------- *)
\* start_record without its entry test
StartIfNoGuard ==
    /\ Goto("sr_if", "sr_mode")
    /\ UNCHANGED <<globals, console>>

\* line 117: if recording: return
StartIf ==
    /\ Goto("sr_if", IF recording THEN "ret" ELSE "sr_mode")
    /\ UNCHANGED <<globals, console>>

\* start_record storing the status text in mode
StartModeStatus ==
    /\ Goto("sr_mode", "sr_rec")
    /\ mode' = "RECORDING"
    /\ UNCHANGED <<running, recording, buffer, save_path, last_saved, console>>

\* line 120: mode = "RECORD"
StartMode ==
    /\ Goto("sr_mode", "sr_rec")
    /\ mode' = "RECORD"
    /\ UNCHANGED <<running, recording, buffer, save_path, last_saved, console>>

\* line 121: recording = True
StartRecording ==
    /\ gpc = "sr_rec" /\ gpc' = "sr_buf"
    /\ recording' = TRUE
    /\ captured' = <<>>
    /\ UNCHANGED <<running, mode, buffer, save_path, last_saved, console, files, portsOpen,
                   loopv, cmd, seq, ri, counters, rwrites, rsleeps, mirrored, startTick, pre>>

\* line 122: buffer = []
StartBuffer ==
    /\ gpc = "sr_buf" /\ gpc' = "sr_path"
    /\ buffer' = <<>>
    /\ bufRef' = Rebind(bufRef)
    /\ UNCHANGED <<running, mode, recording, save_path, last_saved, console, files, portsOpen,
                   lpc, q_leader, cmd, seq, ri, counters, hist>>

\* line 123: save_path = next_path(); int() of a non-numeric name raises ValueError
StartPath ==
    /\ Goto("sr_path", IF NextPathIdx(files) < 0 THEN "raised" ELSE "sr_status")
    /\ save_path' = IF NextPathIdx(files) < 0 THEN save_path ELSE next_path(files)
    /\ UNCHANGED <<running, mode, recording, buffer, last_saved, console>>

\* lines 125-126: status_var.set("RECORDING"); log("[RECORD] START -> name")
StartAnnounce ==
    /\ Goto("sr_status", "ret")
    /\ status' = "RECORDING"
    /\ log' = Append(log, LogLine("[RECORD] START", save_path, 0))
    /\ UNCHANGED globals

start_record ==
    \/ StartIf \/ StartMode \/ StartRecording \/ StartBuffer
    \/ StartPath \/ StartAnnounce

(* ---------------- stop_record (lines 128-145) ---------------- *)
\* stop_record without its entry test
StopIfNoGuard ==
    /\ Goto("sp_if", "sp_rec")
    /\ UNCHANGED <<globals, console>>

\* line 131: if not recording: return
StopIf ==
    /\ Goto("sp_if", IF ~recording THEN "ret" ELSE "sp_rec")
    /\ UNCHANGED <<globals, console>>

\* line 134: recording = False
StopRecording ==
    /\ Goto("sp_rec", "sp_mode")
    /\ recording' = FALSE
    /\ UNCHANGED <<running, mode, buffer, save_path, last_saved, console>>

\* lines 135-136: mode = "TELEOP"; status_var.set("IDLE")
StopMode ==
    /\ Goto("sp_mode", "sp_ifbuf")
    /\ mode' = "TELEOP"
    /\ status' = "IDLE"
    /\ UNCHANGED <<running, recording, buffer, save_path, last_saved, log>>

\* stop_record saving whatever the buffer holds
StopIfBufferAlways ==
    /\ Goto("sp_ifbuf", "sp_save")
    /\ UNCHANGED <<globals, console>>

\* line 138: if buffer
StopIfBuffer ==
    /\ Goto("sp_ifbuf", IF buffer # <<>> THEN "sp_save" ELSE "sp_lognone")
    /\ UNCHANGED <<globals, console>>

\* line 139: np.save(save_path, np.array(buffer)); np.save(None, ...) raises
StopSave ==
    /\ gpc = "sp_save"
    /\ gpc' = IF save_path = None THEN "raised" ELSE "sp_last"
    /\ files' = IF save_path = None THEN files ELSE PutFile(files, save_path, Npy2(buffer))
    /\ UNCHANGED <<globals, console, portsOpen, loopv, cmd, seq, ri, counters, hist>>

\* line 140: last_saved = save_path
StopLast ==
    /\ Goto("sp_last", "sp_logsaved")
    /\ last_saved' = save_path
    /\ UNCHANGED <<running, mode, recording, buffer, save_path, console>>

\* line 141: log("[RECORD] SAVED (n frames)")
StopLogSaved ==
    /\ Goto("sp_logsaved", "sp_clear")
    /\ log' = Append(log, LogLine("[RECORD] SAVED", None, Len(buffer)))
    /\ UNCHANGED <<globals, status>>

\* line 143: log("[RECORD] STOP (no frames)")
StopLogNone ==
    /\ Goto("sp_lognone", "sp_clear")
    /\ log' = Append(log, LogLine("[RECORD] STOP (no frames)", None, 0))
    /\ UNCHANGED <<globals, status>>

\* line 145: buffer = []
StopClear ==
    /\ gpc = "sp_clear" /\ gpc' = "ret"
    /\ buffer' = <<>>
    /\ bufRef' = Rebind(bufRef)
    /\ UNCHANGED <<running, mode, recording, save_path, last_saved, console, files, portsOpen,
                   lpc, q_leader, cmd, seq, ri, counters, hist>>

stop_record ==
    \/ StopIf \/ StopRecording \/ StopMode \/ StopIfBuffer
    \/ StopSave \/ StopLast \/ StopLogSaved \/ StopLogNone \/ StopClear

(* ---------------- replay (lines 147-177) ---------------- *)
\* replay without its entry test
ReplayIfNoGuard ==
    /\ Goto("rp_if", "rp_last")
    /\ UNCHANGED <<globals, console>>

\* line 150: if recording
ReplayIf ==
    /\ Goto("rp_if", IF recording THEN "rp_warn" ELSE "rp_last")
    /\ UNCHANGED <<globals, console>>

\* lines 151-152: log("[WARN] stop record before replay"); return
ReplayWarn ==
    /\ Goto("rp_warn", "ret")
    /\ log' = Append(log, LogLine("[WARN] stop record before replay", None, 0))
    /\ UNCHANGED <<globals, status>>

\* line 154: if last_saved is None or not os.path.exists(last_saved)
ReplayIfLast ==
    /\ Goto("rp_last", IF last_saved = None \/ last_saved \notin DOMAIN files
                       THEN "rp_scan" ELSE "rp_load")
    /\ UNCHANGED <<globals, console>>

\* the names lines 155-159 keep: every name that starts with "raw_"
ReplayFiles(fs) == {f \in DOMAIN fs : StartsWith(f, RawPrefix)}

\* the scan without its test for an empty list
ReplayScanNoEmptyTest ==
    /\ Goto("rp_scan", "rp_load")
    /\ last_saved' = IF ReplayFiles(files) = {} THEN last_saved
                     ELSE SortedLast(ReplayFiles(files))
    /\ UNCHANGED <<running, mode, recording, buffer, save_path, console>>

\* lines 155-163: files = sorted(...); if not files ...; last_saved = files[-1]
ReplayScan ==
    /\ Goto("rp_scan", IF ReplayFiles(files) = {} THEN "rp_nolog" ELSE "rp_load")
    /\ last_saved' = IF ReplayFiles(files) = {} THEN last_saved
                     ELSE SortedLast(ReplayFiles(files))
    /\ UNCHANGED <<running, mode, recording, buffer, save_path, console>>

\* lines 161-162: log("[REPLAY] no recordings"); return
ReplayNoLog ==
    /\ Goto("rp_nolog", "ret")
    /\ log' = Append(log, LogLine("[REPLAY] no recordings", None, 0))
    /\ UNCHANGED <<globals, status>>

\* np.load(path) succeeds on an existing .npy file and raises otherwise
Loadable(fs, p) == p \in DOMAIN fs /\ fs[p].kind = "npy"

\* line 165: seq = np.load(last_saved)
ReplayLoad ==
    /\ gpc = "rp_load"
    /\ gpc' = IF Loadable(files, last_saved) THEN "rp_mode" ELSE "raised"
    /\ seq' = IF Loadable(files, last_saved) THEN files[last_saved] ELSE seq
    /\ ri' = 0
    /\ UNCHANGED <<globals, console, files, portsOpen, loopv, cmd, counters, hist>>

\* line 167: mode = "REPLAY"
ReplayMode ==
    /\ Goto("rp_mode", "rp_status")
    /\ mode' = "REPLAY"
    /\ UNCHANGED <<running, recording, buffer, save_path, last_saved, console>>

\* lines 168-169: status_var.set("REPLAY"); log("[REPLAY] name (n frames)")
ReplayAnnounce ==
    /\ Goto("rp_status", "rp_for")
    /\ status' = "REPLAY"
    /\ log' = Append(log, LogLine("[REPLAY]", last_saved, Len(seq.rows)))
    /\ UNCHANGED globals

\* the loop of replay leaving one row early
ReplayForShort ==
    /\ gpc = "rp_for"
    /\ gpc' = IF ri < Len(seq.rows) - 1 THEN "rp_write" ELSE "rp_back"
    /\ ri' = IF ri < Len(seq.rows) - 1 THEN ri + 1 ELSE ri
    /\ UNCHANGED <<globals, console, files, portsOpen, loopv, cmd, seq, counters, hist>>

\* line 171: for q in seq -- the next row, or the end of the loop
ReplayFor ==
    /\ gpc = "rp_for"
    /\ gpc' = IF ri < Len(seq.rows) THEN "rp_write" ELSE "rp_back"
    /\ ri' = IF ri < Len(seq.rows) THEN ri + 1 ELSE ri
    /\ UNCHANGED <<globals, console, files, portsOpen, loopv, cmd, seq, counters, hist>>

\* line 172: write_follower(q); a row of a 1-D array is a scalar and zip() raises
\* TypeError before anything is sent
ReplayWrite ==
    /\ gpc = "rp_write"
    /\ \/ /\ seq.ndim = 1
          /\ gpc' = "raised"
          /\ UNCHANGED <<nfaults, rwrites>>
       \/ /\ seq.ndim = 2
          /\ \E o \in WriteOutcomes :
              /\ Spend(o)
              /\ rwrites' = Append(rwrites, write_follower(seq.rows[ri]))
              /\ gpc' = IF o = "raise" THEN "raised" ELSE "rp_sleep"
    /\ UNCHANGED <<globals, console, files, portsOpen, loopv, cmd, seq, ri,
                   ticks, ncmds, nremoved, captured, rsleeps, mirrored, startTick, pre>>

\* line 173: time.sleep(DT)
ReplaySleep ==
    /\ gpc = "rp_sleep" /\ gpc' = "rp_for"
    /\ rsleeps' = rsleeps + 1
    /\ UNCHANGED <<globals, console, files, portsOpen, loopv, cmd, seq, ri, counters,
                   captured, rwrites, mirrored, startTick, pre>>

\* line 175: mode = "TELEOP"
ReplayBack ==
    /\ Goto("rp_back", "rp_idle")
    /\ mode' = "TELEOP"
    /\ UNCHANGED <<running, recording, buffer, save_path, last_saved, console>>

\* lines 176-177: status_var.set("IDLE"); log("[REPLAY] DONE")
ReplayDone ==
    /\ Goto("rp_idle", "ret")
    /\ status' = "IDLE"
    /\ log' = Append(log, LogLine("[REPLAY] DONE", None, 0))
    /\ UNCHANGED globals

replay ==
    \/ ReplayIf \/ ReplayWarn \/ ReplayIfLast \/ ReplayScan \/ ReplayNoLog
    \/ ReplayLoad \/ ReplayMode \/ ReplayAnnounce \/ ReplayFor
    \/ ReplayWrite \/ ReplaySleep \/ ReplayBack \/ ReplayDone

(* ---------------- quit_all (lines 179-188) ---------------- *)
\* quit_all saving the session under way before it stops the loop
QuitRunningSaving ==
    /\ gpc = "q_run" /\ gpc' = "q_sleep"
    /\ running' = FALSE
    /\ files' = IF recording /\ buffer # <<>> /\ save_path # None
                THEN PutFile(files, save_path, Npy2(buffer)) ELSE files
    /\ UNCHANGED <<mode, recording, buffer, save_path, last_saved, console,
                   cmd, seq, ri, portsOpen, loopv, counters, hist>>

\* line 181: running = False
QuitRunning ==
    /\ Goto("q_run", "q_sleep")
    /\ running' = FALSE
    /\ UNCHANGED <<mode, recording, buffer, save_path, last_saved, console>>

\* line 182: time.sleep(0.05)
QuitSleep ==
    /\ Goto("q_sleep", "q_close")
    /\ UNCHANGED <<globals, console>>

\* lines 184-185: leader_port.closePort(); follower_port.closePort()
QuitClose ==
    /\ gpc = "q_close" /\ gpc' = "q_destroy"
    /\ portsOpen' = FALSE
    /\ UNCHANGED <<globals, console, files, loopv, cmd, seq, ri, counters, hist>>

\* lines 187-188: root.destroy() ends mainloop and with it the process
QuitDestroy ==
    /\ Goto("q_destroy", "closed")
    /\ UNCHANGED <<globals, console>>

quit_all == QuitRunning \/ QuitSleep \/ QuitClose \/ QuitDestroy

(* ---------------- the records directory seen from outside ---------------- *)
\* the operator deletes a file of the directory between two commands
\* (os.path.exists at line 154 allows for a last_saved that is gone)
EnvRemove ==
    /\ gpc = "idle" /\ nremoved < MaxRemovals
    /\ \E f \in DOMAIN files : files' = DelFile(files, f)
    /\ nremoved' = nremoved + 1
    /\ UNCHANGED <<globals, console, portsOpen, loopv, guiv, ticks, ncmds, nfaults, hist>>

Next ==
    \/ robot_loop
    \/ PressStartRecord \/ PressStopRecord \/ PressReplay \/ PressQuit
    \/ start_record \/ stop_record \/ replay \/ quit_all
    \/ Return \/ TkReport
    \/ EnvRemove

Spec == Init /\ [][Next]_vars

(* ======================= claims ======================= *)

\* no replay() is under way: another callback or none runs, or replay has ended
ReplayOver == cmd # "replay" \/ gpc \in {"ret", "raised"}

\* C1: while mode == REPLAY the control loop neither reads the leader nor writes
\* the follower: no step of robot_loop that performs read_leader() or
\* write_follower() is taken in a state where mode = "REPLAY".
C1_LoopSilentInReplay ==
    [][(lpc \in {"read", "write"} /\ lpc' # lpc) => mode # "REPLAY"]_vars

\* C2: when stop_record() returns from a recording in which n >= 1 ticks saw
\* recording = True, the file at save_path holds exactly the frames of those
\* ticks, in sampling order.
C2_SavedEqualsCaptured ==
    (cmd = "stop_record" /\ gpc = "ret" /\ pre.recording /\ Len(captured) >= 1)
        => (save_path \in DOMAIN files /\ files[save_path] = Npy2(captured))

\* a stored array that is a Trajectory: 2-D, every row a frame of NUM_JOINTS positions
IsTrajectory(c) ==
    c.kind = "npy" /\ c.ndim = 2 /\ \A i \in 1..Len(c.rows) : Len(c.rows[i]) = NUM_JOINTS

\* the frame write that carries frame q: every joint id with its position of q
FrameWrite(q) == [j \in 1..NUM_JOINTS |-> <<JOINT_IDS[j], q[j]>>]

\* how many frames replay has written, and how many tick waits it has made, at gpc
ReplayWritten == CASE gpc = "rp_write" -> ri - 1
                   [] gpc \in {"rp_for", "rp_sleep", "raised"} -> ri
                   [] OTHER -> Len(seq.rows)
ReplayWaited == CASE gpc \in {"rp_write", "rp_sleep", "raised"} -> ri - 1
                  [] gpc = "rp_for" -> ri
                  [] OTHER -> Len(seq.rows)

\* C3: replay() of a trajectory of K frames issues exactly K follower frame
\* writes, the i-th carrying the i-th stored frame, each followed by one tick
\* wait (so at every point of the playback the writes issued are the first
\* frames of the file, also when a write raises and ends it early, and all K
\* of them once the loop is left); K = 0 gives zero writes and completes.
C3_ReplayWritesStoredFrames ==
    (cmd = "replay" /\ IsTrajectory(seq)
        /\ gpc \in {"rp_for", "rp_write", "rp_sleep", "rp_back", "rp_idle", "ret", "raised"})
        => /\ seq = files[last_saved]
           /\ rwrites = [i \in 1..ReplayWritten |-> FrameWrite(seq.rows[i])]
           /\ rsleeps = ReplayWaited
           /\ (Len(seq.rows) = 0 => gpc \in {"rp_for", "rp_back", "rp_idle", "ret"})

C3_Witness ==
    cmd = "replay" /\ gpc = "ret" /\ IsTrajectory(seq) /\ Len(rwrites) = 2 /\ rsleeps = 2

\* C4: every replay() that sets mode = REPLAY sets mode back to TELEOP and
\* status to IDLE before it is over, also when a follower write faults: once
\* the callback is over, mode is not REPLAY and the status is not REPLAY.
C4_ReplayRestoresMode ==
    ReplayOver => (mode # "REPLAY" /\ status # "REPLAY")

\* C5: start_record() takes effect only from TELEOP: whenever the callback is
\* past its entry test (about to set mode, the flag, the buffer or the path, or
\* having done so), the mode it was called in is TELEOP.
C5_StartOnlyFromTeleop ==
    (cmd = "start_record" /\ gpc \in {"sr_mode", "sr_rec", "sr_buf", "sr_path", "sr_status"})
        => pre.mode = "TELEOP"

\* C6: start_record() called while already recording changes nothing: mode,
\* the recording flag, the destination path and the frames buffered are what
\* they would be without the call, no path is allocated, the buffer is not
\* reset and no log line is added.
C6_StartIdempotent ==
    (cmd = "start_record" /\ pre.recording)
        => /\ gpc \in {"sr_if", "ret"}
           /\ mode = pre.mode /\ recording /\ save_path = pre.save_path
           /\ buffer = pre.buffer /\ status = pre.status /\ log = <<>>
           /\ files = pre.files /\ last_saved = pre.last_saved

C6_Witness ==
    cmd = "start_record" /\ gpc = "ret" /\ pre.recording /\ Len(buffer) >= 1

\* what stop_record() leaves alone when it is called while not recording
StopNoopFrame ==
    /\ mode = pre.mode /\ ~recording /\ buffer = pre.buffer
    /\ last_saved = pre.last_saved /\ files = pre.files
    /\ save_path = pre.save_path /\ status = pre.status

\* C7 as stated: stop_record() called when not recording leaves mode, the
\* buffer, LastSaved and the persisted files unchanged and emits exactly one
\* warning/no-op log line.
C7_StopNoopOneLine ==
    (cmd = "stop_record" /\ ~pre.recording /\ gpc = "ret")
        => (StopNoopFrame /\ Len(log) = 1)

\* C7 as amended: stop_record() called when not recording leaves mode, the
\* buffer, LastSaved and the persisted files unchanged and emits no log line.
C7_StopNoopSilent ==
    (cmd = "stop_record" /\ ~pre.recording)
        => (gpc \in {"sp_if", "ret"} /\ StopNoopFrame /\ log = <<>>)

C7_Witness ==
    cmd = "stop_record" /\ ~pre.recording /\ gpc = "ret" /\ last_saved # None

\* C8: replay() called while recording is rejected: mode stays RECORD, the
\* buffer and the destination path are kept, LastSaved and the files are
\* unchanged, replay issues no follower write, and exactly one warning line
\* is logged.
C8_ReplayRejectedWhileRecording ==
    (cmd = "replay" /\ pre.recording)
        => /\ gpc \in {"rp_if", "rp_warn", "ret"}
           /\ mode = "RECORD" /\ recording
           /\ buffer = pre.buffer /\ save_path = pre.save_path
           /\ last_saved = pre.last_saved /\ files = pre.files
           /\ rwrites = <<>>
           /\ (gpc = "ret" => log = <<LogLine("[WARN] stop record before replay", None, 0)>>)
           /\ (gpc # "ret" => log = <<>>)

C8_Witness ==
    cmd = "replay" /\ pre.recording /\ gpc = "ret" /\ Len(buffer) >= 1

\* C9: replay() called in TELEOP with an empty records directory and no prior
\* save fails with NoRecordingsFound: mode stays TELEOP throughout, status
\* stays IDLE, replay issues no follower write, and exactly one line, the
\* "no recordings" one, is logged.
C9_ReplayNoRecordings ==
    (cmd = "replay" /\ pre.mode = "TELEOP" /\ ~pre.recording
        /\ DOMAIN pre.files = {} /\ pre.last_saved = None)
        => /\ gpc \in {"rp_if", "rp_last", "rp_scan", "rp_nolog", "ret"}
           /\ mode = "TELEOP" /\ status = "IDLE" /\ last_saved = None
           /\ rwrites = <<>>
           /\ (gpc = "ret" => log = <<LogLine("[REPLAY] no recordings", None, 0)>>)
           /\ (gpc # "ret" => log = <<>>)

C9_Witness ==
    cmd = "replay" /\ pre.mode = "TELEOP" /\ ~pre.recording
        /\ DOMAIN pre.files = {} /\ pre.last_saved = None /\ gpc = "ret"

\* a persisted trajectory file: a name of the pattern raw_###.npy
IsTrajectoryName(f) ==
    /\ Len(f) = 11 /\ StartsWith(f, RawPrefix) /\ EndsWith(f, NpySuffix)
    /\ \A i \in 5..7 : f[i] \in DigitSet
TrajectoryNames(fs) == {f \in DOMAIN fs : IsTrajectoryName(f)}

\* C10: replay() resolves its target in this order: the LastSaved path if it is
\* set and still exists; otherwise the lexicographically last persisted
\* trajectory file (raw_###) of the directory; otherwise NoRecordingsFound.
C10_ReplayTarget ==
    (cmd = "replay" /\ gpc \in {"rp_load", "rp_nolog"})
        => IF pre.last_saved # None /\ pre.last_saved \in DOMAIN files
           THEN gpc = "rp_load" /\ last_saved = pre.last_saved
           ELSE IF TrajectoryNames(files) # {}
           THEN gpc = "rp_load" /\ last_saved = SortedLast(TrajectoryNames(files))
           ELSE gpc = "rp_nolog"

\* the index a recording's file name carries, whatever its number of digits
RecordingIdx(f) == IntParse(Slice(f, Len(RawPrefix), Len(f) - Len(NpySuffix)))
ExistingIdx(fs) == {RecordingIdx(f) : f \in NextPathFiles(fs)} \ {-1}
MaxIdx(S) == CHOOSE m \in S : \A x \in S : x <= m

\* C11: every allocation of start_record() returns the index max(existing) + 1
\* (000 when there is no recording), which is the name of no existing file, and
\* the file a recording saves is never one that was there before.
C11_MonotonicNaming ==
    /\ (cmd = "start_record" /\ ~pre.recording /\ gpc = "sr_status")
           => /\ save_path \notin DOMAIN files
              /\ save_path = RawName(IF ExistingIdx(files) = {} THEN 0
                                     ELSE MaxIdx(ExistingIdx(files)) + 1)
    /\ (cmd = "stop_record" /\ gpc = "sp_last") => save_path \notin DOMAIN pre.files

StopWhileRecording == cmd = "stop_record" /\ pre.recording
NoFramesLine == LogLine("[RECORD] STOP (no frames)", None, 0)
C12_Step ==
    StopWhileRecording =>
        /\ (gpc = "sp_ifbuf" /\ gpc' # gpc)
               => gpc' = IF buffer = <<>> THEN "sp_lognone" ELSE "sp_save"
        /\ (gpc = "sp_lognone") => (files = pre.files /\ last_saved = pre.last_saved)
        /\ (gpc = "sp_clear" /\ gpc' # gpc) => buffer' = <<>>
        /\ (gpc = "ret")
               => /\ ~recording /\ mode = "TELEOP" /\ status = "IDLE"
                  /\ Len(log) = 1
                  /\ IF log = <<NoFramesLine>>
                     THEN files = pre.files /\ last_saved = pre.last_saved
                     ELSE /\ log[1].text = "[RECORD] SAVED"
                          /\ pre.save_path # None /\ pre.save_path \in DOMAIN files
                          /\ files = PutFile(pre.files, pre.save_path, files[pre.save_path])
                          /\ files[pre.save_path].kind = "npy"
                          /\ files[pre.save_path].rows # <<>>
                          /\ last_saved = pre.save_path

\* C12: stop_record() called while recording takes the no-frames branch exactly
\* when the buffer is empty: then no file is written, LastSaved is unchanged and
\* the log says that nothing was saved; otherwise exactly one file is written, at
\* the path start_record() allocated, and LastSaved becomes that path. Either way
\* the buffer is cleared, recording ends, mode is TELEOP and the status IDLE.
C12_StopOutcome == [][C12_Step]_vars

C12_Witness ==
    StopWhileRecording /\ gpc = "ret" /\ log # <<NoFramesLine>>
        /\ last_saved = pre.save_path /\ last_saved \in DOMAIN files
        /\ files[last_saved].rows # <<>>

\* C13: a failed leader read or follower write makes the loop skip the tick: no
\* frame that comes from a failed read is written to the follower or appended,
\* and the loop goes on; the loop thread ends only once shutdown was requested.
C13_LoopFailurePolicy ==
    /\ lpc \in {"exit", "crashed"} => ~running
    /\ lpc \in {"write", "ifrec", "loadbuf", "append"} => q_leader # Frame(0)

\* C14: quit() during a recording creates and modifies no file and leaves
\* LastSaved as it was, whatever the buffer holds.
C14_QuitDiscardsSession ==
    (cmd = "quit_all" /\ pre.recording)
        => (files = pre.files /\ last_saved = pre.last_saved)

C14_Witness ==
    cmd = "quit_all" /\ pre.recording /\ gpc = "closed" /\ buffer # <<>>

\* C15: mode is one of TELEOP, RECORD and REPLAY in every state, the states in
\* the middle of a command included, and TELEOP until the first command.
C15_ModeExclusive ==
    /\ mode \in {"TELEOP", "RECORD", "REPLAY"}
    /\ ncmds = 0 => mode = "TELEOP"

C15_Witness ==
    cmd = "start_record" /\ gpc = "sr_rec" /\ mode = "RECORD" /\ ~recording

\* C16: a file whose shape does not fit the joint count is never replayed: once
\* replay() has loaded such a file, mode is what it was (never REPLAY on its
\* account) and no follower write has been issued from it.
C16_CorruptFileRejected ==
    (cmd = "replay" /\ seq.kind = "npy" /\ ~IsTrajectory(seq))
        => (mode = pre.mode /\ rwrites = <<>>)

\* C17: when the loop is about to append a frame, that frame is the one
\* read_leader returned in this tick, and write_follower has sent it to the
\* follower earlier in the same tick.
C17_RecordImpliesMirroring ==
    lpc \in {"loadbuf", "append"}
        => /\ q_leader \in {Frame(ticks), Frame(0)}
           /\ mirrored = FrameWrite(q_leader)

C17_Witness ==
    lpc = "append" /\ bufRef = "cur" /\ recording /\ ticks = 2 /\ q_leader = Frame(2)

\* C18: once quit() has closed the ports, the loop thread makes no leader read
\* and no follower write.
C18_NoBusAfterClose ==
    [][(lpc \in {"read", "write"} /\ lpc' # lpc) => portsOpen]_vars

\* C19: the file stop_record() saves holds no frame sampled before the matching
\* start_record() was called (the frame of a failed read carries no sample
\* number and is left out).
C19_SessionOwnFrames ==
    (cmd = "stop_record" /\ pre.recording /\ gpc = "sp_last")
        => \A i \in 1..Len(files[save_path].rows) :
               \/ files[save_path].rows[i] = Frame(0)
               \/ files[save_path].rows[i][1] > startTick

C20_Step ==
    /\ gpc \in {"idle", "closed"} => (recording <=> mode = "RECORD")
    /\ mode = "REPLAY" => ~recording
    /\ (lpc = "append" /\ lpc' # lpc /\ bufRef = "cur")
           => ~(cmd = "replay" /\ mode = "REPLAY")

\* C20: between commands recording is true exactly when mode is RECORD; mode
\* REPLAY always comes with recording false; and the loop appends no frame to
\* the buffer while a replay is in progress.
C20_RecordingAgreesWithMode == [][C20_Step]_vars

====
